---- MODULE Spec2Model ----
(***************************************************************************)
(* Security-group ingress reconciliation of the ALB ingress controller:    *)
(* defaultSecurityGroupReconciler.ReconcileIngress and                     *)
(* diffIPPermissionInfos (pkg/networking, carried in                       *)
(* src/pkg/test/e2e/service/service.go lines 367-479), run against a       *)
(* SecurityGroupManager that keeps the ingress rules of each security      *)
(* group.                                                                  *)
(***************************************************************************)
EXTENDS Integers, Sequences, FiniteSets, TLC

(* ------------------------------------------------------------------ *)
(* Bounds of the model                                                 *)
(* ------------------------------------------------------------------ *)

\* longest desiredPermissions slice handed to a serialized pass
MaxLen == 2

\* longest desiredPermissions slice handed to each of two racing passes
RaceMaxLen == 2

(* ------------------------------------------------------------------ *)
(* Values                                                              *)
(* ------------------------------------------------------------------ *)

Workers == {1, 2}

SGIDs == {"sg-a", "sg-b"}

\* the rule part of a permission: protocol, port range and peer
RuleSet ==
  { [protocol |-> "tcp", fromPort |-> 443, toPort |-> 443, cidr |-> "0.0.0.0/0"],
    [protocol |-> "tcp", fromPort |-> 443, toPort |-> 443, cidr |-> "10.0.0.0/8"] }

\* a label set is a set of "key=value" labels
OwnedLabel == "owner=controller"

LabelSets == { {}, {OwnedLabel} }

\* IPPermissionInfo: a rule plus the Labels kept for ownership bookkeeping
IPPermissionInfo ==
  [protocol : {r.protocol : r \in RuleSet},
   fromPort : {r.fromPort : r \in RuleSet},
   toPort   : {r.toPort : r \in RuleSet},
   cidr     : {r.cidr : r \in RuleSet},
   labels   : LabelSets]

Rule(p) ==
  [protocol |-> p.protocol, fromPort |-> p.fromPort, toPort |-> p.toPort,
   cidr |-> p.cidr]

\* labels.Everything(): the selector without requirements
Everything == {}

\* a selector is the set of labels it requires
Selectors == { Everything, {OwnedLabel} }

\* WithPermissionSelector(permissionSelector): the option is kept as the
\* selector it sets
WithPermissionSelector(permissionSelector) ==
  [permissionSelector |-> permissionSelector]

\* faulty variant: the options are not applied
ApplyOptionsDropped(reconcileOpts, options) == reconcileOpts

\* SecurityGroupReconcileOptions.ApplyOptions: each option in turn is applied
RECURSIVE ApplyOptions(_, _)
ApplyOptions(reconcileOpts, options) ==
  IF options = <<>> THEN reconcileOpts
  ELSE ApplyOptions([reconcileOpts EXCEPT !.PermissionSelector =
                       Head(options).permissionSelector],
                    Tail(options))

\* lines 425-428: the selector a pass called with options works with
ReconcileOpts(options) ==
  ApplyOptions([PermissionSelector |-> Everything], options).PermissionSelector

\* labels.Selector.Matches(labels.Set(permission.Labels))
Matches(selector, labelSet) == selector \subseteq labelSet

SeqsUpTo(S, n) == UNION { [1..k -> S] : k \in 0..n }

RulesOf(perms) == { Rule(perms[i]) : i \in 1..Len(perms) }

NoDuplicateRules(perms) ==
  \A i, j \in 1..Len(perms) : Rule(perms[i]) = Rule(perms[j]) => i = j

\* ingress rule lists a security group can hold: no rule occurs twice
ObservedStates ==
  { s \in SeqsUpTo(IPPermissionInfo, Cardinality(RuleSet)) : NoDuplicateRules(s) }

\* error values a manager call can return
ErrThrottled == "RequestLimitExceeded"
ErrUnauthorized == "UnauthorizedOperation"
ErrDuplicate == "InvalidPermission.Duplicate"
ErrNotFound == "InvalidPermission.NotFound"
ErrGroupNotFound == "InvalidGroup.NotFound"
ErrCanceled == "RequestCanceled: context canceled"
ManagerErrors == {ErrThrottled, ErrUnauthorized}
NoError == "nil"

(* ------------------------------------------------------------------ *)
(* diffIPPermissionInfos                                               *)
(* ------------------------------------------------------------------ *)

\* faulty variant: Labels are compared too
PermissionEqualWithLabels(sPermission, tPermission) == sPermission = tPermission

\* cmp.Equal(sPermission, tPermission, opts): Labels are ignored
PermissionEqual(sPermission, tPermission) ==
  Rule(sPermission) = Rule(tPermission)

\* faulty variant: only the first permission of target is compared
ContainsFirstOnly(sPermission, target) ==
  Len(target) > 0 /\ PermissionEqual(sPermission, target[1])

\* lines 466-472: the inner loop over target
ContainsInTarget(sPermission, target) ==
  \E i \in 1..Len(target) : PermissionEqual(sPermission, target[i])

\* set difference source - target, in the order of source
diffIPPermissionInfos(source, target) ==
  SelectSeq(source, LAMBDA sPermission : ~ContainsInTarget(sPermission, target))

(* ------------------------------------------------------------------ *)
(* ReconcileIngress: the lists computed from the fetched state         *)
(* ------------------------------------------------------------------ *)

\* faulty variant: every fetched permission counts as extra
ExtraIsEverything(ingress, desiredPermissions) == ingress

ExtraPermissions(ingress, desiredPermissions) ==
  diffIPPermissionInfos(ingress, desiredPermissions)

\* faulty variant: every extra permission is revoked, the selector is not asked
RevokeEveryExtra(ingress, desiredPermissions, permissionSelector) ==
  ExtraPermissions(ingress, desiredPermissions)

PermissionsToRevoke(ingress, desiredPermissions, permissionSelector) ==
  SelectSeq(ExtraPermissions(ingress, desiredPermissions),
            LAMBDA permission : Matches(permissionSelector, permission.labels))

\* faulty variant: only the desired permissions the selector matches are granted
GrantOnlySelected(ingress, desiredPermissions) ==
  SelectSeq(diffIPPermissionInfos(desiredPermissions, ingress),
            LAMBDA permission : Matches({OwnedLabel}, permission.labels))

\* faulty variant: the desired permissions are granted without a diff
GrantAllDesired(ingress, desiredPermissions) == desiredPermissions

PermissionsToGrant(ingress, desiredPermissions) ==
  diffIPPermissionInfos(desiredPermissions, ingress)

(* ------------------------------------------------------------------ *)
(* SecurityGroupManager                                                *)
(* ------------------------------------------------------------------ *)

\* FetchSGInfosByID: a map from the requested ID to the current ingress rules
\* of that group
FetchSGInfosByID(groups, id) == [i \in {id} |-> groups[i]]

\* line 434, sgInfo := sgInfoByID[sgID]: the entry of the map, and the zero
\* value (no ingress rule) when the map has no entry for the ID
SGInfoOf(infoByID, id) ==
  IF id \in DOMAIN infoByID THEN infoByID[id] ELSE <<>>

\* RevokeSGIngress removes every listed rule, all at once
RevokeResult(ingress, permissions) ==
  diffIPPermissionInfos(ingress, permissions)

\* a listed rule that the group does not hold
RevokeMissing(ingress, permissions) ==
  \E i \in 1..Len(permissions) : ~ContainsInTarget(permissions[i], ingress)

\* AuthorizeSGIngress rejects a rule the group already holds, or one listed twice
GrantRejected(ingress, permissions) ==
  \/ \E i \in 1..Len(permissions) : ContainsInTarget(permissions[i], ingress)
  \/ ~NoDuplicateRules(permissions)

\* AuthorizeSGIngress adds every listed rule, all at once
GrantResult(ingress, permissions) == ingress \o permissions

(* ------------------------------------------------------------------ *)
(* State                                                               *)
(* ------------------------------------------------------------------ *)

VARIABLES
  sg,                   \* sg[id]: the ingress rules the manager holds for group id
  pc,                   \* pc[w]: where worker w is in ReconcileIngress
  sgID,                 \* sgID[w]: the sgID argument
  desiredPermissions,   \* desiredPermissions[w]: the desiredPermissions argument
  permissionSelector,   \* permissionSelector[w]: reconcileOpts.PermissionSelector
  sgInfo,               \* sgInfo[w]: the ingress list fetched by the pass
  permissionsToRevoke,  \* permissionsToRevoke[w]
  permissionsToGrant,   \* permissionsToGrant[w]
  ret,                  \* ret[w]: the error returned by the pass, NoError for nil
  calls,                \* calls[w]: the manager calls of the pass, in order
  before,               \* before[w]: sg when the pass was entered
  prev,                 \* prev[w]: outcome of the worker's previous pass
  opts,                 \* opts[w]: the opts argument, a list of options
  sgInfoByID,           \* sgInfoByID[w]: the map FetchSGInfosByID returned
  ctx,                  \* ctx[w]: the context of the pass and when it was cancelled
  dcall,                \* a call of diffIPPermissionInfos on its own
  cfg,                  \* the ControllerConfig of the controller and its validation
  acm                   \* a call of ServiceTest.DeleteCertFromACM

vars == <<sg, pc, sgID, desiredPermissions, permissionSelector, sgInfo,
          permissionsToRevoke, permissionsToGrant, ret, calls, before, prev,
          opts, sgInfoByID, ctx, dcall, cfg, acm>>

\* what no step of a pass changes: its arguments, its context, a call of
\* diffIPPermissionInfos made on its own, and what is outside the reconciler
args == <<sgID, desiredPermissions, permissionSelector, opts, ctx, dcall, cfg, acm>>

\* context.Context that has not been cancelled
Background == [done |-> FALSE, at |-> 0]

\* what a manager call made with context c can fail with
CallErrors(c, others) == IF c.done THEN {ErrCanceled} ELSE others

\* the manager's side of a call: it carries a call out only under a context
\* that is not cancelled (specification, section 5)
Served(c) == ~c.done

\* the manager's side of FetchSGInfosByID: it knows the group, and answers
\* with the group's entry, or it fails the call: a missing or unknown ID is an
\* error, not silently dropped (specification, section 4.3)
KnownGroup(groups, id) == id \in DOMAIN groups

FetchErrors(groups, id) ==
  IF KnownGroup(groups, id) THEN ManagerErrors ELSE {ErrGroupNotFound}

NoDiffCall == [pc |-> "none"]

\* no ControllerConfig is built, DeleteCertFromACM is not called
NoConfig == [pc |-> "none"]
NoDeleteCall == [pc |-> "none"]

NoPass == [ran |-> FALSE, ret |-> NoError, toRevoke |-> <<>>, toGrant |-> <<>>,
           calls |-> <<>>, opts |-> <<>>]

Call(op, id, permissions, err) ==
  [op |-> op, id |-> id, permissions |-> permissions, err |-> err]

\* faulty variant: the grant is applied first and the revoke is dropped
AfterDiffGrantFirst(toRevoke, toGrant) ==
  IF Len(toGrant) > 0 THEN "grant"
  ELSE IF Len(toRevoke) > 0 THEN "revoke"
  ELSE "done"

\* faulty variant: the length guards are missing, Revoke is always called
AfterDiffUnguarded(toRevoke, toGrant) == "revoke"

\* where the pass continues after the lists are computed (lines 444, 449, 455)
AfterDiff(toRevoke, toGrant) ==
  IF Len(toRevoke) > 0 THEN "revoke"
  ELSE IF Len(toGrant) > 0 THEN "grant"
  ELSE "done"

\* faulty variant: the pass returns after the revoke, the grant is forgotten
AfterRevokeReturns(toGrant) == "done"

\* where the pass continues after a successful revoke (lines 449, 455)
AfterRevoke(toGrant) ==
  IF Len(toGrant) > 0 THEN "grant" ELSE "done"

Locals0 ==
  /\ pc = [w \in Workers |-> "entry"]
  /\ sgInfo = [w \in Workers |-> <<>>]
  /\ permissionsToRevoke = [w \in Workers |-> <<>>]
  /\ permissionsToGrant = [w \in Workers |-> <<>>]
  /\ ret = [w \in Workers |-> NoError]
  /\ calls = [w \in Workers |-> <<>>]
  /\ before = [w \in Workers |-> sg]
  /\ prev = [w \in Workers |-> NoPass]
  /\ sgInfoByID = [w \in Workers |-> <<>>]
  /\ ctx = [w \in Workers |-> Background]

(* ------------------------------------------------------------------ *)
(* Steps of ReconcileIngress                                           *)
(* ------------------------------------------------------------------ *)

\* lines 425-443: options applied, the state fetched, both lists computed.
\* Whether the manager answers the fetch is the manager's side (Served,
\* KnownGroup); the code tests only the error it gets back.
FetchOK(w) ==
  /\ pc[w] = "entry"
  /\ Served(ctx[w])
  /\ KnownGroup(sg, sgID[w])
  /\ sgInfoByID' = [sgInfoByID EXCEPT ![w] = FetchSGInfosByID(sg, sgID[w])]
  /\ LET ingress == SGInfoOf(FetchSGInfosByID(sg, sgID[w]), sgID[w])
         toRevoke == PermissionsToRevoke(ingress, desiredPermissions[w],
                                         permissionSelector[w])
         toGrant == PermissionsToGrant(ingress, desiredPermissions[w])
     IN /\ sgInfo' = [sgInfo EXCEPT ![w] = ingress]
        /\ permissionsToRevoke' = [permissionsToRevoke EXCEPT ![w] = toRevoke]
        /\ permissionsToGrant' = [permissionsToGrant EXCEPT ![w] = toGrant]
        /\ pc' = [pc EXCEPT ![w] = AfterDiff(toRevoke, toGrant)]
  /\ calls' = [calls EXCEPT ![w] = <<Call("Fetch", sgID[w], <<>>, NoError)>>]
  /\ before' = [before EXCEPT ![w] = sg]
  /\ ret' = [ret EXCEPT ![w] = NoError]
  /\ UNCHANGED <<sg, args, prev>>

\* faulty variant: the fetch error is dropped and the pass goes on with the
\* zero value of the fetched state
FetchFailIgnored(w) ==
  /\ pc[w] = "entry"
  /\ \E err \in ManagerErrors :
       calls' = [calls EXCEPT ![w] = <<Call("Fetch", sgID[w], <<>>, err)>>]
  /\ LET toGrant == PermissionsToGrant(<<>>, desiredPermissions[w])
     IN /\ permissionsToGrant' = [permissionsToGrant EXCEPT ![w] = toGrant]
        /\ pc' = [pc EXCEPT ![w] = AfterDiff(<<>>, toGrant)]
  /\ before' = [before EXCEPT ![w] = sg]
  /\ UNCHANGED <<sg, args, sgInfo, sgInfoByID,
                 permissionsToRevoke, ret, prev>>

\* lines 430-433: the fetch fails and its error is returned; which errors the
\* manager may answer with is the manager's side (CallErrors, FetchErrors)
FetchFail(w) ==
  /\ pc[w] = "entry"
  /\ \E err \in CallErrors(ctx[w], FetchErrors(sg, sgID[w])) :
       /\ calls' = [calls EXCEPT ![w] = <<Call("Fetch", sgID[w], <<>>, err)>>]
       /\ ret' = [ret EXCEPT ![w] = err]
  /\ before' = [before EXCEPT ![w] = sg]
  /\ pc' = [pc EXCEPT ![w] = "done"]
  /\ UNCHANGED <<sg, args, sgInfo, sgInfoByID,
                 permissionsToRevoke, permissionsToGrant, prev>>

\* faulty variant: the revoke goes to one fixed group, whatever sgID is
RevokeOKFixedGroup(w) ==
  /\ pc[w] = "revoke"
  /\ Served(ctx[w])
  /\ sg' = [sg EXCEPT !["sg-a"] = RevokeResult(@, permissionsToRevoke[w])]
  /\ calls' = [calls EXCEPT ![w] =
                 Append(@, Call("Revoke", "sg-a", permissionsToRevoke[w], NoError))]
  /\ pc' = [pc EXCEPT ![w] = AfterRevoke(permissionsToGrant[w])]
  /\ UNCHANGED <<args, sgInfo, sgInfoByID, permissionsToRevoke,
                 permissionsToGrant, ret, before, prev>>

\* faulty variant: RevokeSGIngress is called with a context of its own, so a
\* cancelled ctx does not stop it
RevokeOKDetached(w) ==
  /\ pc[w] = "revoke"
  /\ sg' = [sg EXCEPT ![sgID[w]] = RevokeResult(@, permissionsToRevoke[w])]
  /\ calls' = [calls EXCEPT ![w] =
                 Append(@, Call("Revoke", sgID[w], permissionsToRevoke[w], NoError))]
  /\ pc' = [pc EXCEPT ![w] = AfterRevoke(permissionsToGrant[w])]
  /\ UNCHANGED <<args, sgInfo, sgInfoByID,
                 permissionsToRevoke, permissionsToGrant, ret,
                 before, prev>>

\* lines 444-448: RevokeSGIngress, called with ctx, succeeds; that it does so
\* only under a context not cancelled is the manager's side (Served)
RevokeOK(w) ==
  /\ pc[w] = "revoke"
  /\ Served(ctx[w])
  /\ sg' = [sg EXCEPT ![sgID[w]] = RevokeResult(@, permissionsToRevoke[w])]
  /\ calls' = [calls EXCEPT ![w] =
                 Append(@, Call("Revoke", sgID[w], permissionsToRevoke[w], NoError))]
  /\ pc' = [pc EXCEPT ![w] = AfterRevoke(permissionsToGrant[w])]
  /\ UNCHANGED <<args, sgInfo, sgInfoByID,
                 permissionsToRevoke, permissionsToGrant, ret,
                 before, prev>>

\* faulty variant: the error of RevokeSGIngress is recorded but the pass goes on
RevokeFailContinues(w) ==
  /\ pc[w] = "revoke"
  /\ \E err \in ManagerErrors :
       /\ calls' = [calls EXCEPT ![w] =
                      Append(@, Call("Revoke", sgID[w], permissionsToRevoke[w], err))]
       /\ ret' = [ret EXCEPT ![w] = err]
  /\ pc' = [pc EXCEPT ![w] = AfterRevoke(permissionsToGrant[w])]
  /\ UNCHANGED <<sg, args, sgInfo, sgInfoByID,
                 permissionsToRevoke, permissionsToGrant,
                 before, prev>>

\* lines 445-447: RevokeSGIngress fails, nothing is removed, the error is returned
RevokeFail(w) ==
  /\ pc[w] = "revoke"
  /\ \E err \in CallErrors(ctx[w], ManagerErrors \cup
                  (IF RevokeMissing(sg[sgID[w]], permissionsToRevoke[w])
                   THEN {ErrNotFound} ELSE {})) :
       /\ calls' = [calls EXCEPT ![w] =
                      Append(@, Call("Revoke", sgID[w], permissionsToRevoke[w], err))]
       /\ ret' = [ret EXCEPT ![w] = err]
  /\ pc' = [pc EXCEPT ![w] = "done"]
  /\ UNCHANGED <<sg, args, sgInfo, sgInfoByID,
                 permissionsToRevoke, permissionsToGrant,
                 before, prev>>

\* lines 449-455: AuthorizeSGIngress, called with ctx, succeeds and the pass
\* returns nil; that it succeeds only under a context not cancelled is the
\* manager's side (Served)
GrantOK(w) ==
  /\ pc[w] = "grant"
  /\ Served(ctx[w])
  /\ ~GrantRejected(sg[sgID[w]], permissionsToGrant[w])
  /\ sg' = [sg EXCEPT ![sgID[w]] = GrantResult(@, permissionsToGrant[w])]
  /\ calls' = [calls EXCEPT ![w] =
                 Append(@, Call("Grant", sgID[w], permissionsToGrant[w], NoError))]
  /\ pc' = [pc EXCEPT ![w] = "done"]
  /\ UNCHANGED <<args, sgInfo, sgInfoByID,
                 permissionsToRevoke, permissionsToGrant, ret,
                 before, prev>>

\* faulty variant: a failed AuthorizeSGIngress is tried again
GrantFailRetries(w) ==
  /\ pc[w] = "grant"
  /\ \E err \in ManagerErrors :
       calls' = [calls EXCEPT ![w] =
                   Append(@, Call("Grant", sgID[w], permissionsToGrant[w], err))]
  /\ UNCHANGED <<sg, pc, args, sgInfo, sgInfoByID,
                 permissionsToRevoke, permissionsToGrant, ret,
                 before, prev>>

\* lines 450-452: AuthorizeSGIngress fails, nothing is added, the error is returned
GrantFail(w) ==
  /\ pc[w] = "grant"
  /\ \E err \in CallErrors(ctx[w],
                 (IF GrantRejected(sg[sgID[w]], permissionsToGrant[w])
                  THEN {ErrDuplicate} ELSE {}) \cup ManagerErrors) :
       /\ calls' = [calls EXCEPT ![w] =
                      Append(@, Call("Grant", sgID[w], permissionsToGrant[w], err))]
       /\ ret' = [ret EXCEPT ![w] = err]
  /\ pc' = [pc EXCEPT ![w] = "done"]
  /\ UNCHANGED <<sg, args, sgInfo, sgInfoByID,
                 permissionsToRevoke, permissionsToGrant,
                 before, prev>>

\* the scheduler invokes ReconcileIngress again with the same arguments
Again(w) ==
  /\ pc[w] = "done"
  /\ prev' = [prev EXCEPT ![w] =
                [ran |-> TRUE, ret |-> ret[w], toRevoke |-> permissionsToRevoke[w],
                 toGrant |-> permissionsToGrant[w], calls |-> calls[w],
                 opts |-> opts[w]]]
  /\ pc' = [pc EXCEPT ![w] = "entry"]
  /\ sgInfo' = [sgInfo EXCEPT ![w] = <<>>]
  /\ permissionsToRevoke' = [permissionsToRevoke EXCEPT ![w] = <<>>]
  /\ permissionsToGrant' = [permissionsToGrant EXCEPT ![w] = <<>>]
  /\ ret' = [ret EXCEPT ![w] = NoError]
  /\ calls' = [calls EXCEPT ![w] = <<>>]
  /\ before' = [before EXCEPT ![w] = sg]
  /\ sgInfoByID' = [sgInfoByID EXCEPT ![w] = <<>>]
  /\ UNCHANGED <<sg, args>>

(* ------------------------------------------------------------------ *)
(* Serialized passes: one worker, passes one after the other           *)
(* ------------------------------------------------------------------ *)

\* no option, or the option that narrows the pass to the owned permissions
SerialOptions == { <<>>, <<WithPermissionSelector({OwnedLabel})>> }

Init ==
  /\ sg \in [SGIDs -> ObservedStates]
  /\ sgID \in [Workers -> {"sg-a"}]
  /\ \E d \in SeqsUpTo(IPPermissionInfo, MaxLen) :
       desiredPermissions = [w \in Workers |-> d]
  /\ \E o \in SerialOptions :
       /\ opts = [w \in Workers |-> o]
       /\ permissionSelector = [w \in Workers |-> ReconcileOpts(o)]
  /\ Locals0
  /\ cfg = NoConfig
  /\ acm = NoDeleteCall
  /\ dcall = NoDiffCall

Next ==
  \/ FetchOK(1)
  \/ FetchFail(1)
  \/ RevokeOK(1)
  \/ RevokeFail(1)
  \/ GrantOK(1)
  \/ GrantFail(1)
  \/ Again(1)

Spec == Init /\ [][Next]_vars

(* ------------------------------------------------------------------ *)
(* Reading the recorded calls of a pass                                *)
(* ------------------------------------------------------------------ *)

CallIdx(w, op) == { i \in 1..Len(calls[w]) : calls[w][i].op = op }

Mutations(w) == CallIdx(w, "Revoke") \cup CallIdx(w, "Grant")

FetchSucceeded(w) == Len(calls[w]) > 0 /\ calls[w][1].err = NoError

FailedCall(w, op) ==
  \E i \in CallIdx(w, op) : calls[w][i].err # NoError

LastCall(cs) == cs[Len(cs)]

Tcp443(cidr, labelSet) ==
  [protocol |-> "tcp", fromPort |-> 443, toPort |-> 443, cidr |-> cidr,
   labels |-> labelSet]

(* ------------------------------------------------------------------ *)
(* C1                                                                  *)
(* ------------------------------------------------------------------ *)

\* C1: in a pass whose revoke list and grant list are both non-empty, a Grant
\* call is only issued after the Revoke call of the pass has returned without
\* error; no pass issues a Revoke after a Grant; neither is called more than
\* once, and a pass that returned without a Revoke failure has called Fetch,
\* Revoke (with the revoke list) and Grant (with the grant list), in that order,
\* each exactly once.
C1_RevokeBeforeGrant ==
  \A w \in Workers :
    LET c == calls[w] IN
    /\ Cardinality(CallIdx(w, "Revoke")) <= 1
    /\ Cardinality(CallIdx(w, "Grant")) <= 1
    /\ \A j \in CallIdx(w, "Grant") : \A i \in CallIdx(w, "Revoke") :
         i < j /\ c[i].err = NoError
    /\ (Len(permissionsToRevoke[w]) > 0 /\ Len(permissionsToGrant[w]) > 0) =>
         /\ \A j \in CallIdx(w, "Grant") :
              \E i \in CallIdx(w, "Revoke") : i < j /\ c[i].err = NoError
         /\ (pc[w] = "done" /\ ~FailedCall(w, "Revoke")) =>
              /\ Len(c) = 3
              /\ c[1].op = "Fetch"
              /\ c[2].op = "Revoke" /\ c[2].permissions = permissionsToRevoke[w]
              /\ c[3].op = "Grant" /\ c[3].permissions = permissionsToGrant[w]

\* the scenario of the specification: observed (tcp,443,0.0.0.0/0), desired
\* (tcp,443,10.0.0.0/8); Revoke of the first, then Grant of the second
C1_Witness ==
  /\ pc[1] = "done" /\ ret[1] = NoError
  /\ RulesOf(sgInfo[1]) = {Rule(Tcp443("0.0.0.0/0", {}))}
  /\ RulesOf(desiredPermissions[1]) = {Rule(Tcp443("10.0.0.0/8", {}))}
  /\ Len(calls[1]) = 3
  /\ calls[1][2].op = "Revoke" /\ calls[1][2].permissions = sgInfo[1]
  /\ calls[1][3].op = "Grant" /\ calls[1][3].permissions = desiredPermissions[1]
  /\ RulesOf(sg[sgID[1]]) = {Rule(Tcp443("10.0.0.0/8", {}))}

(* ------------------------------------------------------------------ *)
(* C2                                                                  *)
(* ------------------------------------------------------------------ *)

\* C2: when the Revoke call of a pass fails, the pass has returned that error,
\* has issued no Grant call, and the group's ingress list is the fetched one.
C2_RevokeFailureSkipsGrant ==
  \A w \in Workers :
    \A i \in CallIdx(w, "Revoke") :
      calls[w][i].err # NoError =>
        /\ pc[w] = "done"
        /\ ret[w] = calls[w][i].err
        /\ CallIdx(w, "Grant") = {}
        /\ i = Len(calls[w])
        /\ sg[sgID[w]] = sgInfo[w]

C2_Witness ==
  /\ pc[1] = "done"
  /\ FailedCall(1, "Revoke")
  /\ Len(permissionsToGrant[1]) > 0
  /\ ret[1] \in ManagerErrors

(* ------------------------------------------------------------------ *)
(* C3                                                                  *)
(* ------------------------------------------------------------------ *)

\* C3: a fetched permission whose labels do not match the selector is in no
\* Revoke argument and stays on the group, unchanged, through the pass and
\* after it, whether or not the desired state holds an equal rule.
C3_SelectorContainment ==
  \A w \in Workers :
    /\ \A i \in CallIdx(w, "Revoke") :
         \A k \in 1..Len(calls[w][i].permissions) :
           Matches(permissionSelector[w], calls[w][i].permissions[k].labels)
    /\ FetchSucceeded(w) =>
         \A k \in 1..Len(sgInfo[w]) :
           ~Matches(permissionSelector[w], sgInfo[w][k].labels) =>
             /\ \E j \in 1..Len(sg[sgID[w]]) : sg[sgID[w]][j] = sgInfo[w][k]
             /\ \A i \in CallIdx(w, "Revoke") :
                  ~ContainsInTarget(sgInfo[w][k], calls[w][i].permissions)

\* observed = {A(owned), B(unowned)}, desired = {}, selector = owned only
C3_Witness ==
  /\ pc[1] = "done" /\ ret[1] = NoError
  /\ permissionSelector[1] = {OwnedLabel}
  /\ desiredPermissions[1] = <<>>
  /\ sgInfo[1] = <<Tcp443("0.0.0.0/0", {OwnedLabel}), Tcp443("10.0.0.0/8", {})>>
  /\ Len(calls[1]) = 2
  /\ calls[1][2] = Call("Revoke", sgID[1], <<Tcp443("0.0.0.0/0", {OwnedLabel})>>, NoError)
  /\ sg[sgID[1]] = <<Tcp443("10.0.0.0/8", {})>>

(* ------------------------------------------------------------------ *)
(* C4                                                                  *)
(* ------------------------------------------------------------------ *)

InScope(perms, selector) ==
  { Rule(perms[i]) : i \in { k \in 1..Len(perms) : Matches(selector, perms[k].labels) } }

OutOfScope(perms, selector) ==
  { Rule(perms[i]) : i \in { k \in 1..Len(perms) : ~Matches(selector, perms[k].labels) } }

Elements(perms) == { perms[i] : i \in 1..Len(perms) }

UnselectedKept(w) ==
  { p \in Elements(sgInfo[w]) : ~Matches(permissionSelector[w], p.labels) }
    \subseteq Elements(sg[sgID[w]])

\* the statement as first made: after a successful pass the rules of the group
\* are the rules of the desired permissions the selector matches, plus the
\* fetched rules the selector does not match
C4_AsStated ==
  \A w \in Workers :
    (pc[w] = "done" /\ ret[w] = NoError) =>
      /\ RulesOf(sg[sgID[w]]) =
           InScope(desiredPermissions[w], permissionSelector[w])
             \cup OutOfScope(sgInfo[w], permissionSelector[w])
      /\ UnselectedKept(w)

\* C4 (amended): after a successful pass the rules of the group are the rules
\* of ALL desired permissions, whatever their labels, plus the fetched rules
\* whose labels the selector does not match; those fetched permissions are
\* kept unchanged, and no rule is held twice.
C4_PostState ==
  \A w \in Workers :
    (pc[w] = "done" /\ ret[w] = NoError) =>
      /\ RulesOf(sg[sgID[w]]) =
           RulesOf(desiredPermissions[w])
             \cup OutOfScope(sgInfo[w], permissionSelector[w])
      /\ UnselectedKept(w)
      /\ NoDuplicateRules(sg[sgID[w]])

\* a successful pass that granted a desired permission the selector does not
\* match, revoked an owned extra and kept nothing else
C4_Witness ==
  /\ pc[1] = "done" /\ ret[1] = NoError
  /\ permissionSelector[1] = {OwnedLabel}
  /\ sgInfo[1] = <<Tcp443("0.0.0.0/0", {OwnedLabel})>>
  /\ desiredPermissions[1] = <<Tcp443("10.0.0.0/8", {})>>
  /\ sg[sgID[1]] = <<Tcp443("10.0.0.0/8", {})>>
  /\ Len(calls[1]) = 3

(* ------------------------------------------------------------------ *)
(* C5                                                                  *)
(* ------------------------------------------------------------------ *)

\* C5: a pass that follows a successful pass with the same desired state and
\* options, nothing else having touched the group, issues no Revoke and no
\* Grant call, and once its fetch has succeeded it has returned nil.
C5_Idempotence ==
  \A w \in Workers :
    (prev[w].ran /\ prev[w].ret = NoError) =>
      /\ Mutations(w) = {}
      /\ FetchSucceeded(w) =>
           /\ pc[w] = "done" /\ ret[w] = NoError
           /\ permissionsToRevoke[w] = <<>> /\ permissionsToGrant[w] = <<>>
           /\ sg = before[w]

\* the second pass has ended after a first pass that revoked and granted
C5_Witness ==
  /\ prev[1].ran /\ prev[1].ret = NoError
  /\ Len(prev[1].calls) = 3
  /\ pc[1] = "done" /\ ret[1] = NoError
  /\ calls[1] = <<Call("Fetch", sgID[1], <<>>, NoError)>>

(* ------------------------------------------------------------------ *)
(* C6                                                                  *)
(* ------------------------------------------------------------------ *)

EqualUnderPolicy(observed, desired) ==
  /\ \A i \in 1..Len(observed) : \E j \in 1..Len(desired) :
       Rule(observed[i]) = Rule(desired[j])
  /\ \A j \in 1..Len(desired) : \E i \in 1..Len(observed) :
       Rule(observed[i]) = Rule(desired[j])

\* C6: no Revoke and no Grant call carries an empty permission list; a pass
\* whose fetched ingress list equals the desired state under the equality
\* policy has ended after the fetch with nil and without a mutation call.
C6_NoEmptyMutation ==
  \A w \in Workers :
    /\ \A i \in Mutations(w) : Len(calls[w][i].permissions) > 0
    /\ pc[w] = "revoke" => Len(permissionsToRevoke[w]) > 0
    /\ pc[w] = "grant" => Len(permissionsToGrant[w]) > 0
    /\ (FetchSucceeded(w) /\ EqualUnderPolicy(sgInfo[w], desiredPermissions[w])) =>
         /\ pc[w] = "done" /\ ret[w] = NoError
         /\ Len(calls[w]) = 1

\* observed and desired hold the same two rules under different labels
C6_Witness ==
  /\ pc[1] = "done" /\ ret[1] = NoError
  /\ ~prev[1].ran
  /\ Len(sgInfo[1]) = 2 /\ Len(desiredPermissions[1]) = 2
  /\ sgInfo[1] # desiredPermissions[1]
  /\ EqualUnderPolicy(sgInfo[1], desiredPermissions[1])
  /\ Len(calls[1]) = 1

(* ------------------------------------------------------------------ *)
(* C7                                                                  *)
(* ------------------------------------------------------------------ *)

\* C7: when the Fetch call of a pass fails, the pass has returned exactly the
\* error of that call, has issued no Revoke and no Grant call, and every
\* group's ingress list is what it was when the pass was entered.
C7_FetchFailure ==
  \A w \in Workers :
    (Len(calls[w]) > 0 /\ calls[w][1].err # NoError) =>
      /\ pc[w] = "done"
      /\ ret[w] = calls[w][1].err
      /\ Len(calls[w]) = 1
      /\ sg = before[w]

\* the fetch failed although the group was out of sync with the desired state
C7_Witness ==
  /\ pc[1] = "done"
  /\ calls[1] = <<Call("Fetch", sgID[1], <<>>, ErrUnauthorized)>>
  /\ ret[1] = ErrUnauthorized
  /\ PermissionsToGrant(sg[sgID[1]], desiredPermissions[1]) # <<>>
  /\ PermissionsToRevoke(sg[sgID[1]], desiredPermissions[1], permissionSelector[1]) # <<>>

(* ------------------------------------------------------------------ *)
(* C8                                                                  *)
(* ------------------------------------------------------------------ *)

GrantFailed(cs) ==
  Len(cs) > 0 /\ LastCall(cs).op = "Grant" /\ LastCall(cs).err # NoError

\* C8: a pass whose Grant fails has returned the Grant error, and the group
\* holds the fetched list without the revoked permissions; the pass that
\* follows it issues no Revoke call, computes the grant list of the failed
\* pass again, and calls Grant once, with exactly that list.
C8_PartialFailure ==
  \A w \in Workers :
    /\ GrantFailed(calls[w]) =>
         /\ pc[w] = "done"
         /\ ret[w] = LastCall(calls[w]).err
         /\ sg[sgID[w]] = RevokeResult(sgInfo[w], permissionsToRevoke[w])
         /\ \A k \in 1..Len(permissionsToRevoke[w]) :
              ~ContainsInTarget(permissionsToRevoke[w][k], sg[sgID[w]])
    /\ (prev[w].ran /\ GrantFailed(prev[w].calls)) =>
         /\ CallIdx(w, "Revoke") = {}
         /\ FetchSucceeded(w) =>
              /\ permissionsToRevoke[w] = <<>>
              /\ permissionsToGrant[w] = prev[w].toGrant
              /\ pc[w] \in {"grant", "done"}
              /\ pc[w] = "done" =>
                   /\ Len(calls[w]) = 2
                   /\ calls[w][2].op = "Grant"
                   /\ calls[w][2].permissions = prev[w].toGrant

\* Fetch ok, Revoke ok, Grant failed; the next pass granted the remaining delta
C8_Witness ==
  /\ prev[1].ran /\ GrantFailed(prev[1].calls)
  /\ Len(prev[1].calls) = 3 /\ prev[1].calls[2].err = NoError
  /\ pc[1] = "done" /\ ret[1] = NoError
  /\ calls[1] = <<Call("Fetch", sgID[1], <<>>, NoError),
                  Call("Grant", sgID[1], prev[1].toGrant, NoError)>>

(* ------------------------------------------------------------------ *)
(* Retried passes under fair scheduling                                *)
(* ------------------------------------------------------------------ *)

LiveInit ==
  /\ Init
  /\ sg["sg-b"] = <<>>

\* the scheduler keeps invoking passes, and a manager call that is retried
\* again and again succeeds at some point
Fairness ==
  /\ WF_vars(Next)
  /\ SF_vars(FetchOK(1))
  /\ SF_vars(RevokeOK(1))
  /\ SF_vars(GrantOK(1))

LiveSpec == LiveInit /\ [][Next]_vars /\ Fairness

(* ------------------------------------------------------------------ *)
(* C9                                                                  *)
(* ------------------------------------------------------------------ *)

\* no residual drift: every desired rule is on the group and no permission of
\* the group that the selector matches is without an equal desired rule
Converged(w) ==
  /\ \A i \in 1..Len(desiredPermissions[w]) :
       \E j \in 1..Len(sg[sgID[w]]) :
         Rule(sg[sgID[w]][j]) = Rule(desiredPermissions[w][i])
  /\ \A j \in 1..Len(sg[sgID[w]]) :
       Matches(permissionSelector[w], sg[sgID[w]][j].labels) =>
         \E i \in 1..Len(desiredPermissions[w]) :
           Rule(sg[sgID[w]][j]) = Rule(desiredPermissions[w][i])

PassSucceeded(w) == pc[w] = "done" /\ ret[w] = NoError

\* C9: whatever failed passes came before, a pass that succeeds leaves no
\* residual drift; a converged group stays converged under further passes;
\* and when passes are retried and manager calls eventually succeed (which a
\* manager rejecting duplicate rules allows only for a desired state without
\* duplicates) the group eventually is converged for good.
C9_SelfHealing ==
  /\ [](PassSucceeded(1) => Converged(1))
  /\ [][Converged(1) => Converged(1)']_vars
  /\ (([]<>PassSucceeded(1)) => <>[]Converged(1))
  /\ (NoDuplicateRules(desiredPermissions[1]) => <>[]Converged(1))

\* a pass succeeded with a revoke and a grant after a pass whose revoke failed
C9_Witness ==
  /\ prev[1].ran /\ prev[1].ret # NoError
  /\ Len(prev[1].calls) = 2 /\ prev[1].calls[2].op = "Revoke"
  /\ PassSucceeded(1) /\ Len(calls[1]) = 3
  /\ Converged(1)
  /\ sg[sgID[1]] # before[1][sgID[1]]

(* ------------------------------------------------------------------ *)
(* Two passes on the same group that the caller does not serialize     *)
(* ------------------------------------------------------------------ *)

RaceDesired ==
  SeqsUpTo({ p \in IPPermissionInfo : p.labels = {} }, RaceMaxLen)

RaceInit ==
  /\ sg \in { g \in [SGIDs -> ObservedStates] : g["sg-b"] = <<>> }
  /\ sgID = [w \in Workers |-> "sg-a"]
  /\ desiredPermissions \in [Workers -> RaceDesired]
  /\ opts \in [Workers -> SerialOptions]
  /\ permissionSelector = [w \in Workers |-> ReconcileOpts(opts[w])]
  /\ Locals0
  /\ cfg = NoConfig
  /\ acm = NoDeleteCall
  /\ dcall = NoDiffCall

RaceNext ==
  \E w \in Workers :
    \/ FetchOK(w)
    \/ FetchFail(w)
    \/ RevokeOK(w)
    \/ RevokeFail(w)
    \/ GrantOK(w)
    \/ GrantFail(w)

RaceSpec == RaceInit /\ [][RaceNext]_vars

(* ------------------------------------------------------------------ *)
(* C10                                                                 *)
(* ------------------------------------------------------------------ *)

\* the group after a pass on ingress in which every manager call succeeds
SerialPass(ingress, desired, selector) ==
  GrantResult(RevokeResult(ingress, PermissionsToRevoke(ingress, desired, selector)),
              PermissionsToGrant(ingress, desired))

SerialOrder(ingress, first, second) ==
  SerialPass(SerialPass(ingress, desiredPermissions[first], permissionSelector[first]),
             desiredPermissions[second], permissionSelector[second])

RevokedRules(w) ==
  UNION { RulesOf(calls[w][i].permissions) : i \in CallIdx(w, "Revoke") }

GrantedRules(w) ==
  UNION { RulesOf(calls[w][i].permissions) : i \in CallIdx(w, "Grant") }

\* C10: nothing in the reconciler keeps a second pass from fetching a group
\* while another pass on it is between its fetch and its last mutation; each
\* pass applies the lists it computed from its own fetched state, also when the
\* group has changed since; and when two passes that fetched the same state
\* both succeed, the group ends as that state minus both revoke lists plus
\* both grant lists.
C10_UnserializedPasses ==
  /\ \A w \in Workers : \A v \in Workers \ {w} :
       (pc[w] \in {"revoke", "grant"} /\ pc[v] = "entry" /\ sgID[v] = sgID[w]) =>
         ENABLED FetchOK(v)
  /\ \A w \in Workers :
       /\ \A i \in CallIdx(w, "Revoke") :
            RulesOf(calls[w][i].permissions) =
              { r \in InScope(sgInfo[w], permissionSelector[w]) :
                  r \notin RulesOf(desiredPermissions[w]) }
       /\ \A i \in CallIdx(w, "Grant") :
            RulesOf(calls[w][i].permissions) =
              RulesOf(desiredPermissions[w]) \ RulesOf(sgInfo[w])
  /\ (PassSucceeded(1) /\ PassSucceeded(2) /\ sgInfo[1] = sgInfo[2]) =>
       RulesOf(sg["sg-a"]) =
         ((RulesOf(sgInfo[1]) \ (RevokedRules(1) \cup RevokedRules(2)))
            \cup GrantedRules(1)) \cup GrantedRules(2)

\* both passes fetched the same state before either changed the group, both
\* changed it and returned nil, and the group ends as neither serial order of
\* the two passes leaves it: a rule that the granting pass wants, and that both
\* passes saw in place, is gone
C10_Witness ==
  /\ PassSucceeded(1) /\ PassSucceeded(2)
  /\ sgInfo[1] = sgInfo[2]
  /\ sgInfo[1] = before[1]["sg-a"] /\ sgInfo[2] = before[2]["sg-a"]
  /\ Mutations(1) # {} /\ Mutations(2) # {}
  /\ NoDuplicateRules(desiredPermissions[1])
  /\ NoDuplicateRules(desiredPermissions[2])
  /\ RulesOf(sg["sg-a"]) # RulesOf(SerialOrder(sgInfo[1], 1, 2))
  /\ RulesOf(sg["sg-a"]) # RulesOf(SerialOrder(sgInfo[1], 2, 1))
  /\ \E w \in Workers :
       /\ CallIdx(w, "Grant") # {}
       /\ \E r \in RulesOf(desiredPermissions[w]) \cap RulesOf(sgInfo[w]) :
            r \notin RulesOf(sg["sg-a"])

(* ------------------------------------------------------------------ *)
(* Two passes on different groups, run concurrently                    *)
(* ------------------------------------------------------------------ *)

\* longest desiredPermissions slice handed to each of two concurrent passes on
\* different groups
IndepMaxLen == 1

IndepInit ==
  /\ sg \in { g \in [SGIDs -> ObservedStates] : Len(g["sg-b"]) <= 1 }
  /\ sgID = [w \in Workers |-> IF w = 1 THEN "sg-a" ELSE "sg-b"]
  /\ desiredPermissions \in
       [Workers -> SeqsUpTo({ p \in IPPermissionInfo : p.labels = {} }, IndepMaxLen)]
  /\ opts \in [Workers -> SerialOptions]
  /\ permissionSelector = [w \in Workers |-> ReconcileOpts(opts[w])]
  /\ Locals0
  /\ cfg = NoConfig
  /\ acm = NoDeleteCall
  /\ dcall = NoDiffCall

IndepSpec == IndepInit /\ [][RaceNext]_vars

(* ------------------------------------------------------------------ *)
(* C11                                                                 *)
(* ------------------------------------------------------------------ *)

\* the rules of the successful calls op of the pass of worker w
AppliedRules(w, op) ==
  UNION { RulesOf(calls[w][i].permissions) :
            i \in { k \in CallIdx(w, op) : calls[w][k].err = NoError } }

\* the pass of worker w as it runs alone: calls for its own group only, lists
\* computed from what it fetched, and its group holding what it fetched minus
\* what it revoked plus what it granted
RunsAsAlone(w) ==
  /\ \A i \in 1..Len(calls[w]) : calls[w][i].id = sgID[w]
  /\ FetchSucceeded(w) =>
       /\ sgInfo[w] = before[w][sgID[w]]
       /\ \A i \in CallIdx(w, "Revoke") :
            RulesOf(calls[w][i].permissions) =
              { r \in InScope(sgInfo[w], permissionSelector[w]) :
                  r \notin RulesOf(desiredPermissions[w]) }
       /\ \A i \in CallIdx(w, "Grant") :
            RulesOf(calls[w][i].permissions) =
              RulesOf(desiredPermissions[w]) \ RulesOf(sgInfo[w])
       /\ RulesOf(sg[sgID[w]]) =
            (RulesOf(sgInfo[w]) \ AppliedRules(w, "Revoke"))
              \cup AppliedRules(w, "Grant")
  /\ ~FetchSucceeded(w) => sg[sgID[w]] = before[w][sgID[w]]

\* C11: a pass for group X calls the manager with ID X only; a step of a pass
\* on another group never changes the ingress list of X; so under every
\* interleaving the pass on X issues the calls and leaves the list that it
\* issues and leaves when it runs alone.
C11_Independence ==
  /\ [](\A w \in Workers : RunsAsAlone(w))
  /\ [][\A w \in Workers :
          (pc'[w] = pc[w] /\ calls'[w] = calls[w]) =>
            sg'[sgID[w]] = sg[sgID[w]]]_vars

\* both passes revoked and granted on their own group, and the pass on sg-b
\* fetched between the revoke and the grant of the pass on sg-a
C11_Witness ==
  /\ sgID[1] # sgID[2]
  /\ PassSucceeded(1) /\ PassSucceeded(2)
  /\ Len(calls[1]) = 3 /\ Len(calls[2]) = 3
  /\ before[2]["sg-a"] # before[1]["sg-a"]
  /\ before[2]["sg-a"] # sg["sg-a"]
  /\ before[1]["sg-b"] # sg["sg-b"]

(* ------------------------------------------------------------------ *)
(* C12                                                                 *)
(* ------------------------------------------------------------------ *)

\* the same rules at the same places, the labels left aside
SameUpToLabels(xs, ys) ==
  /\ Len(xs) = Len(ys)
  /\ \A i \in 1..Len(xs) : Rule(xs[i]) = Rule(ys[i])

\* C12: permissions that differ only in Labels are equal for the diff; for a
\* fetched list and a desired list that are element-wise equal up to Labels
\* the diff is empty in both directions; and a fetched rule that the desired
\* state holds under other labels is neither revoked nor granted by the pass.
C12_LabelIrrelevance ==
  /\ \A p, q \in IPPermissionInfo : Rule(p) = Rule(q) => PermissionEqual(p, q)
  /\ \A w \in Workers :
       FetchSucceeded(w) =>
         /\ SameUpToLabels(sgInfo[w], desiredPermissions[w]) =>
              /\ diffIPPermissionInfos(sgInfo[w], desiredPermissions[w]) = <<>>
              /\ diffIPPermissionInfos(desiredPermissions[w], sgInfo[w]) = <<>>
              /\ permissionsToRevoke[w] = <<>> /\ permissionsToGrant[w] = <<>>
              /\ Mutations(w) = {}
         /\ \A o \in Elements(sgInfo[w]) : \A d \in Elements(desiredPermissions[w]) :
              Rule(o) = Rule(d) =>
                /\ \A i \in CallIdx(w, "Revoke") :
                     Rule(o) \notin RulesOf(calls[w][i].permissions)
                /\ \A i \in CallIdx(w, "Grant") :
                     Rule(d) \notin RulesOf(calls[w][i].permissions)
                /\ \E j \in 1..Len(sg[sgID[w]]) : sg[sgID[w]][j] = o

\* both fetched rules are desired with the labels swapped, and the pass has
\* ended without touching them
C12_Witness ==
  /\ pc[1] = "done" /\ ret[1] = NoError /\ FetchSucceeded(1)
  /\ Len(sgInfo[1]) = 2
  /\ SameUpToLabels(sgInfo[1], desiredPermissions[1])
  /\ \A i \in 1..2 : sgInfo[1][i].labels # desiredPermissions[1][i].labels
  /\ sgInfo[1][1].labels # sgInfo[1][2].labels
  /\ Mutations(1) = {}
  /\ sg[sgID[1]] = sgInfo[1]

(* ------------------------------------------------------------------ *)
(* diffIPPermissionInfos, statement by statement                       *)
(* ------------------------------------------------------------------ *)

\* longest source and longest target of a call of diffIPPermissionInfos
DiffMaxLen == 2

\* line 464: var diffs []IPPermissionInfo, before the loop over source
DiffEntry(source, target, results) ==
  [pc |-> "loop", source |-> source, target |-> target, i |-> 1,
   diffs |-> <<>>, results |-> results]

DiffInit ==
  /\ \E source \in SeqsUpTo(IPPermissionInfo, DiffMaxLen) :
       \E target \in SeqsUpTo(IPPermissionInfo, DiffMaxLen) :
         dcall = DiffEntry(source, target, <<>>)
  /\ sg = [id \in SGIDs |-> <<>>]
  /\ sgID = [w \in Workers |-> "sg-a"]
  /\ desiredPermissions = [w \in Workers |-> <<>>]
  /\ opts = [w \in Workers |-> <<>>]
  /\ permissionSelector = [w \in Workers |-> ReconcileOpts(<<>>)]
  /\ Locals0
  /\ cfg = NoConfig
  /\ acm = NoDeleteCall

DiffFrame ==
  UNCHANGED <<sg, pc, sgID, desiredPermissions, permissionSelector, sgInfo,
              permissionsToRevoke, permissionsToGrant, ret, calls, before, prev,
              opts, sgInfoByID, ctx, cfg, acm>>

\* lines 465-476: one round of the loop over source
DiffStep ==
  /\ dcall.pc = "loop"
  /\ dcall.i <= Len(dcall.source)
  /\ LET sPermission == dcall.source[dcall.i]
         containsInTarget == ContainsInTarget(sPermission, dcall.target)
     IN dcall' = [dcall EXCEPT
                    !.diffs = IF ~containsInTarget THEN Append(@, sPermission) ELSE @,
                    !.i = @ + 1]
  /\ DiffFrame

\* line 477: return diffs
DiffReturn ==
  /\ dcall.pc = "loop"
  /\ dcall.i > Len(dcall.source)
  /\ dcall' = [dcall EXCEPT !.pc = "returned", !.results = Append(@, dcall.diffs)]
  /\ DiffFrame

\* line 443: after diffIPPermissionInfos(sgInfo.Ingress, desiredPermissions) of
\* line 436 returned, ReconcileIngress calls
\* diffIPPermissionInfos(desiredPermissions, sgInfo.Ingress): the slices of the
\* call before, their roles exchanged
DiffSecond ==
  /\ dcall.pc = "returned"
  /\ Len(dcall.results) \in {1, 3}
  /\ dcall' = DiffEntry(dcall.target, dcall.source, dcall.results)
  /\ DiffFrame

\* line 436 of the next pass, when the fetched list and the desired list are
\* those of the pass before: the first call is made again with the same slices
DiffAgain ==
  /\ dcall.pc = "returned"
  /\ Len(dcall.results) = 2
  /\ dcall' = DiffEntry(dcall.target, dcall.source, dcall.results)
  /\ DiffFrame

DiffNext == DiffStep \/ DiffReturn \/ DiffSecond \/ DiffAgain

DiffSpec == DiffInit /\ [][DiffNext]_vars

(* ------------------------------------------------------------------ *)
(* C13                                                                 *)
(* ------------------------------------------------------------------ *)

\* the places of source whose permission has no equal in target
KeptPlaces(source, target) ==
  { k \in 1..Len(source) :
      \A j \in 1..Len(target) : Rule(source[k]) # Rule(target[j]) }

\* result holds the permissions at the kept places of source, each once, in
\* the order of source, and nothing else
ExactDifference(result, source, target) ==
  LET kept == KeptPlaces(source, target) IN
  /\ Len(result) = Cardinality(kept)
  /\ \A k \in kept :
       result[Cardinality({ m \in kept : m <= k })] = source[k]

\* C13: a call of diffIPPermissionInfos returns exactly the permissions of
\* source without an equal in target, none missing and none added, for empty
\* slices too; it never changes source or target, so that the caller hands the
\* same two slices to the next call; a later call with the same slices in the
\* same roles returns the same result.
C13_DiffExact ==
  /\ [](dcall.pc = "returned" =>
          /\ ExactDifference(dcall.diffs, dcall.source, dcall.target)
          /\ dcall.diffs = diffIPPermissionInfos(dcall.source, dcall.target)
          /\ dcall.results[Len(dcall.results)] = dcall.diffs
          /\ Len(dcall.results) >= 3 =>
               dcall.results[Len(dcall.results)] =
                 dcall.results[Len(dcall.results) - 2])
  /\ [][IF dcall.pc = "loop"
        THEN dcall'.source = dcall.source /\ dcall'.target = dcall.target
        ELSE dcall'.source = dcall.target /\ dcall'.target = dcall.source]_vars

\* the call of the next pass has returned what the first call returned: of
\* two source permissions the second has an equal in target, under other
\* labels, and is left out; the first is returned
C13_Witness ==
  /\ dcall.pc = "returned" /\ Len(dcall.results) = 3
  /\ dcall.results[1] = dcall.diffs
  /\ Len(dcall.source) = 2 /\ Len(dcall.target) = 1
  /\ dcall.diffs = <<dcall.source[1]>>
  /\ Rule(dcall.source[2]) = Rule(dcall.target[1])
  /\ dcall.source[2] # dcall.target[1]

(* ------------------------------------------------------------------ *)
(* C14                                                                 *)
(* ------------------------------------------------------------------ *)

\* the desired permissions of worker w without an equal in the fetched list
Ungranted(w) ==
  { d \in Elements(desiredPermissions[w]) : Rule(d) \notin RulesOf(sgInfo[w]) }

\* C14: the selector does not filter the grant list: every desired permission
\* without an equal in the fetched list, whatever its labels and whatever the
\* selector, is in the grant list, is in the argument of the Grant call, and
\* that call is made in every pass in which no earlier call failed.
C14_GrantUnfiltered ==
  \A w \in Workers :
    FetchSucceeded(w) =>
      /\ Ungranted(w) \subseteq Elements(permissionsToGrant[w])
      /\ \A i \in CallIdx(w, "Grant") :
           Ungranted(w) \subseteq Elements(calls[w][i].permissions)
      /\ (pc[w] = "done" /\ Ungranted(w) # {} /\ ~FailedCall(w, "Revoke")) =>
           CallIdx(w, "Grant") # {}

\* the selector matches owned permissions only; an unlabelled and an owned
\* desired permission were both granted in one call
C14_Witness ==
  /\ pc[1] = "done" /\ ret[1] = NoError
  /\ permissionSelector[1] = {OwnedLabel}
  /\ sgInfo[1] = <<>>
  /\ desiredPermissions[1] =
       <<Tcp443("0.0.0.0/0", {}), Tcp443("10.0.0.0/8", {OwnedLabel})>>
  /\ calls[1][Len(calls[1])] =
       Call("Grant", sgID[1], desiredPermissions[1], NoError)
  /\ sg[sgID[1]] = desiredPermissions[1]

(* ------------------------------------------------------------------ *)
(* C15                                                                 *)
(* ------------------------------------------------------------------ *)

\* perms without the permissions that have an equal earlier in the list
RECURSIVE DeDuplicated(_)
DeDuplicated(perms) ==
  IF perms = <<>> THEN <<>>
  ELSE LET front == DeDuplicated(SubSeq(perms, 1, Len(perms) - 1))
           last  == perms[Len(perms)]
       IN  IF ContainsInTarget(last, front) THEN front ELSE Append(front, last)

\* C15, as the specification states it: a pass given a desired list with
\* permissions equal under the equality policy computes the revoke and grant
\* lists of the pass given the de-duplicated list, passes these lists to the
\* manager, and its Grant is not rejected as a duplicate.  The code does not
\* keep to it: line 443 copies every desired permission without an equal in the
\* fetched list, so two equal desired permissions are both in the Grant argument.
C15_DuplicatesRedundant ==
  \A w \in Workers :
    FetchSucceeded(w) =>
      LET unique == DeDuplicated(desiredPermissions[w]) IN
      /\ permissionsToRevoke[w] =
           PermissionsToRevoke(sgInfo[w], unique, permissionSelector[w])
      /\ permissionsToGrant[w] = PermissionsToGrant(sgInfo[w], unique)
      /\ \A i \in CallIdx(w, "Grant") :
           /\ calls[w][i].permissions = PermissionsToGrant(sgInfo[w], unique)
           /\ calls[w][i].err # ErrDuplicate

(* ------------------------------------------------------------------ *)
(* C16: a pass for a group the manager does not know                   *)
(* ------------------------------------------------------------------ *)

\* an ID of no group of the manager
UnknownID == "sg-x"

\* passes for a group the manager holds and passes for the unknown ID; the
\* other group plays no part and starts empty
MissingInit ==
  /\ sg \in { g \in [SGIDs -> ObservedStates] : g["sg-b"] = <<>> }
  /\ \E id \in {"sg-a", UnknownID} : sgID = [w \in Workers |-> id]
  /\ \E d \in SeqsUpTo(IPPermissionInfo, MaxLen) :
       desiredPermissions = [w \in Workers |-> d]
  /\ \E o \in SerialOptions :
       /\ opts = [w \in Workers |-> o]
       /\ permissionSelector = [w \in Workers |-> ReconcileOpts(o)]
  /\ Locals0
  /\ cfg = NoConfig
  /\ acm = NoDeleteCall
  /\ dcall = NoDiffCall

MissingSpec == MissingInit /\ [][Next]_vars

C17_NoRetries ==
  \A w \in Workers :
    /\ pc[w] # "entry" => CallIdx(w, "Fetch") = {1}
    /\ Cardinality(CallIdx(w, "Fetch")) <= 1
    /\ Cardinality(CallIdx(w, "Revoke")) <= 1
    /\ Cardinality(CallIdx(w, "Grant")) <= 1
    /\ \A i \in 1..Len(calls[w]) :
         calls[w][i].err # NoError =>
           /\ i = Len(calls[w])
           /\ pc[w] = "done"
           /\ ret[w] = calls[w][i].err
    /\ ret[w] # NoError =>
         /\ Len(calls[w]) > 0
         /\ ret[w] = LastCall(calls[w]).err

\* the revoke succeeded, the grant was refused, and the pass ended there with
\* the manager's error
C17_Witness ==
  /\ pc[1] = "done"
  /\ Len(calls[1]) = 3
  /\ calls[1][2].op = "Revoke" /\ calls[1][2].err = NoError
  /\ calls[1][3].op = "Grant" /\ calls[1][3].err = ErrUnauthorized
  /\ ret[1] = ErrUnauthorized
  /\ prev[1].ran /\ prev[1].ret = ErrThrottled

(* ------------------------------------------------------------------ *)
(* C18: the caller cancels ctx during a pass                           *)
(* ------------------------------------------------------------------ *)

\* the caller cancels the context of a pass that still has a call to make;
\* at is the number of calls the pass had completed by then
Cancel(w) ==
  /\ pc[w] \in {"entry", "revoke", "grant"}
  /\ ~ctx[w].done
  /\ ctx' = [ctx EXCEPT ![w] = [done |-> TRUE, at |-> Len(calls[w])]]
  /\ UNCHANGED <<sg, pc, sgID, desiredPermissions, permissionSelector, sgInfo,
                 permissionsToRevoke, permissionsToGrant, ret, calls, before,
                 prev, opts, sgInfoByID, dcall, cfg, acm>>

\* a pass whose context the caller may cancel.  The code hands ctx to the
\* three calls and never tests it: once ctx is cancelled, what the steps of
\* Next can do is decided by the manager's side (Served, CallErrors).
CancelNext == Next \/ Cancel(1)

CancelSpec == LiveInit /\ [][CancelNext]_vars

OptsMaxLen == 1

\* the opts arguments: none, one option, or two options with different selectors
OptionLists ==
  { <<>> }
  \cup { <<WithPermissionSelector(s)>> : s \in Selectors }
  \cup { <<WithPermissionSelector(st[1]), WithPermissionSelector(st[2])>> :
           st \in { xy \in Selectors \X Selectors : xy[1] # xy[2] } }

OptsInit ==
  /\ sg \in { g \in [SGIDs -> ObservedStates] : g["sg-b"] = <<>> }
  /\ sgID = [w \in Workers |-> "sg-a"]
  /\ \E d \in SeqsUpTo({ p \in IPPermissionInfo : p.labels = {} }, OptsMaxLen) :
       desiredPermissions = [w \in Workers |-> d]
  /\ \E o \in OptionLists :
       /\ opts = [w \in Workers |-> o]
       /\ permissionSelector = [w \in Workers |-> ReconcileOpts(o)]
  /\ Locals0
  /\ cfg = NoConfig
  /\ acm = NoDeleteCall
  /\ dcall = NoDiffCall

\* the scheduler invokes ReconcileIngress again, with other options; lines
\* 425-428 build the options of the new pass from the default.  Of the pass
\* that ended, its options are kept.
AgainWith(w) ==
  /\ pc[w] = "done"
  /\ prev' = [prev EXCEPT ![w] =
                [NoPass EXCEPT !.ran = TRUE, !.opts = opts[w]]]
  /\ \E o \in OptionLists :
       /\ opts' = [opts EXCEPT ![w] = o]
       /\ permissionSelector' = [permissionSelector EXCEPT ![w] = ReconcileOpts(o)]
  /\ pc' = [pc EXCEPT ![w] = "entry"]
  /\ sgInfo' = [sgInfo EXCEPT ![w] = <<>>]
  /\ permissionsToRevoke' = [permissionsToRevoke EXCEPT ![w] = <<>>]
  /\ permissionsToGrant' = [permissionsToGrant EXCEPT ![w] = <<>>]
  /\ ret' = [ret EXCEPT ![w] = NoError]
  /\ calls' = [calls EXCEPT ![w] = <<>>]
  /\ before' = [before EXCEPT ![w] = sg]
  /\ sgInfoByID' = [sgInfoByID EXCEPT ![w] = <<>>]
  /\ UNCHANGED <<sg, sgID, desiredPermissions, ctx, dcall, cfg, acm>>

OptsNext ==
  \/ FetchOK(1)
  \/ FetchFail(1)
  \/ RevokeOK(1)
  \/ RevokeFail(1)
  \/ GrantOK(1)
  \/ GrantFail(1)
  \/ AgainWith(1)

OptsSpec == OptsInit /\ [][OptsNext]_vars

\* the fetched permissions of worker w without an equal in the desired list
Unwanted(w) ==
  { p \in Elements(sgInfo[w]) : Rule(p) \notin RulesOf(desiredPermissions[w]) }

\* C19: a pass called with no option works with the selector that matches
\* everything, whatever the options of the pass before it: each fetched
\* permission without an equal in the desired list, labelled or not, is in the
\* revoke list and in the argument of the Revoke call, which is made.  A pass
\* called with options works with the selector of its last option.
C19_DefaultOptions ==
  \A w \in Workers :
    /\ opts[w] # <<>> =>
         permissionSelector[w] = opts[w][Len(opts[w])].permissionSelector
    /\ opts[w] = <<>> =>
         /\ permissionSelector[w] = Everything
         /\ FetchSucceeded(w) =>
              /\ Unwanted(w) \subseteq Elements(permissionsToRevoke[w])
              /\ \A i \in CallIdx(w, "Revoke") :
                   Unwanted(w) \subseteq Elements(calls[w][i].permissions)
              /\ (Unwanted(w) # {} /\ pc[w] \in {"grant", "done"}) =>
                   CallIdx(w, "Revoke") # {}

\* the pass before was narrowed to the owned permissions and left the
\* unlabelled one alone; this pass, called with no option, revoked it
C19_Witness ==
  /\ prev[1].ran
  /\ prev[1].opts = <<WithPermissionSelector({OwnedLabel})>>
  /\ opts[1] = <<>>
  /\ pc[1] = "done" /\ ret[1] = NoError
  /\ \E i \in CallIdx(1, "Revoke") :
       /\ calls[1][i].err = NoError
       /\ \E j \in 1..Len(calls[1][i].permissions) :
            calls[1][i].permissions[j].labels = {}

(* ------------------------------------------------------------------ *)
(* C20                                                                 *)
(* ------------------------------------------------------------------ *)

\* every permission of the list was fetched, matches the selector and has no
\* equal in the desired list
SafeToRevoke(w, permissions) ==
  \A p \in Elements(permissions) :
    /\ p \in Elements(sgInfo[w])
    /\ Matches(permissionSelector[w], p.labels)
    /\ Rule(p) \notin RulesOf(desiredPermissions[w])

\* every permission of the list is desired and has no equal in the fetched list
NeededToGrant(w, permissions) ==
  \A p \in Elements(permissions) :
    /\ p \in Elements(desiredPermissions[w])
    /\ Rule(p) \notin RulesOf(sgInfo[w])

\* C20: minimal and safe mutations: whatever a pass hands to Revoke was
\* fetched, matches the selector and equals (ignoring labels) no desired
\* permission; whatever it hands to Grant is desired and equals (ignoring
\* labels) no fetched permission.
C20_MinimalMutations ==
  \A w \in Workers :
    /\ SafeToRevoke(w, permissionsToRevoke[w])
    /\ NeededToGrant(w, permissionsToGrant[w])
    /\ \A i \in CallIdx(w, "Revoke") : SafeToRevoke(w, calls[w][i].permissions)
    /\ \A i \in CallIdx(w, "Grant") : NeededToGrant(w, calls[w][i].permissions)

\* two rules were fetched; the one that is desired, under other labels, was
\* kept and the other one was revoked
C20_Witness ==
  /\ pc[1] = "done" /\ ret[1] = NoError
  /\ Len(sgInfo[1]) = 2
  /\ desiredPermissions[1] = <<Tcp443("10.0.0.0/8", {OwnedLabel})>>
  /\ sgInfo[1][2] = Tcp443("10.0.0.0/8", {})
  /\ calls[1] = <<Call("Fetch", sgID[1], <<>>, NoError),
                  Call("Revoke", sgID[1], <<sgInfo[1][1]>>, NoError)>>
  /\ sg[sgID[1]] = <<sgInfo[1][2]>>

(* ------------------------------------------------------------------ *)
(* ControllerConfig (pkg/config/controller_config.go)                  *)
(* ------------------------------------------------------------------ *)

defaultLogLevel == "info"
defaultMaxConcurrentReconciles == 3

\* a nil *runtime.Scheme, and one that is not nil
NoScheme == "nil"
Schemes == { NoScheme, "scheme" }

\* values of the --cluster-name flag, as lists of characters: the empty
\* string, a blank, a name
ClusterNames == { <<>>, <<" ">>, <<"k", "8">> }

LogLevels == { defaultLogLevel, "debug" }

\* values of the two max-concurrent-reconciles flags
ReconcileCounts == { -1, 0, 1, defaultMaxConcurrentReconciles }

ErrClusterName == "Kubernetes cluster name must be specified"
ErrScheme == "Controller runtime scheme not initialzied"

\* NewControllerConfig: only the scheme of the runtime configuration is set
NewControllerConfig(scheme) ==
  [LogLevel |-> "",
   ClusterName |-> <<>>,
   RuntimeConfig |-> [Scheme |-> scheme],
   ServiceMaxConcurrentReconciles |-> 0,
   TargetgroupBindingMaxConcurrentReconciles |-> 0]

\* faulty variant: the scheme is looked at first
ValidateSchemeFirst(config) ==
  IF config.RuntimeConfig.Scheme = NoScheme THEN ErrScheme
  ELSE IF Len(config.ClusterName) = 0 THEN ErrClusterName
  ELSE NoError

\* ControllerConfig.Validate, the error it returns
Validate(config) ==
  IF Len(config.ClusterName) = 0 THEN ErrClusterName
  ELSE IF config.RuntimeConfig.Scheme = NoScheme THEN ErrScheme
  ELSE NoError

\* the reconciler is not in use
ReconcilerUnused ==
  /\ sg = [id \in SGIDs |-> <<>>]
  /\ sgID = [w \in Workers |-> "sg-a"]
  /\ desiredPermissions = [w \in Workers |-> <<>>]
  /\ opts = [w \in Workers |-> <<>>]
  /\ permissionSelector = [w \in Workers |-> ReconcileOpts(<<>>)]
  /\ Locals0
  /\ dcall = NoDiffCall

ReconcilerFrame ==
  UNCHANGED <<sg, pc, sgID, desiredPermissions, permissionSelector, sgInfo,
              permissionsToRevoke, permissionsToGrant, ret, calls, before, prev,
              opts, sgInfoByID, ctx, dcall>>

\* the configuration as main builds it, with a scheme or with none
ConfigInit ==
  /\ \E scheme \in Schemes :
       cfg = [pc |-> "new", config |-> NewControllerConfig(scheme), err |-> NoError]
  /\ acm = NoDeleteCall
  /\ ReconcilerUnused

\* lines 55-61: binding a flag to a field stores the flag's default in the field
BindFlags ==
  /\ cfg.pc = "new"
  /\ cfg' = [cfg EXCEPT
               !.pc = "bound",
               !.config.LogLevel = defaultLogLevel,
               !.config.ClusterName = <<>>,
               !.config.ServiceMaxConcurrentReconciles =
                  defaultMaxConcurrentReconciles,
               !.config.TargetgroupBindingMaxConcurrentReconciles =
                  defaultMaxConcurrentReconciles]
  /\ ReconcilerFrame
  /\ UNCHANGED acm

\* the command line is parsed: the flags given on it are stored in the fields
\* they were bound to
ParseFlags ==
  /\ cfg.pc = "bound"
  /\ \E level \in LogLevels, name \in ClusterNames,
        service \in ReconcileCounts, binding \in ReconcileCounts :
       cfg' = [cfg EXCEPT
                 !.pc = "parsed",
                 !.config.LogLevel = level,
                 !.config.ClusterName = name,
                 !.config.ServiceMaxConcurrentReconciles = service,
                 !.config.TargetgroupBindingMaxConcurrentReconciles = binding]
  /\ ReconcilerFrame
  /\ UNCHANGED acm

\* lines 69-77: Validate is called; it assigns to no field
ValidateCall ==
  /\ cfg.pc \in {"new", "bound", "parsed"}
  /\ cfg' = [cfg EXCEPT !.pc = "validated", !.err = Validate(cfg.config)]
  /\ ReconcilerFrame
  /\ UNCHANGED acm

ConfigNext == BindFlags \/ ParseFlags \/ ValidateCall

ConfigSpec == ConfigInit /\ [][ConfigNext]_vars

(* ------------------------------------------------------------------ *)
(* C21                                                                 *)
(* ------------------------------------------------------------------ *)

\* C21: Validate returns an error exactly when the cluster name is empty or
\* the scheme is nil: the cluster-name error when the name is empty, whatever
\* the scheme, and the scheme error when only the scheme is missing.  The two
\* reconcile counts play no part, whatever their values, zero and negative
\* ones too; both are 3 once the flags are bound.  Validate changes no field.
C21_Validate ==
  /\ [](cfg.pc = "validated" =>
          LET noName == cfg.config.ClusterName = <<>>
              noScheme == cfg.config.RuntimeConfig.Scheme = NoScheme
          IN /\ cfg.err # NoError <=> (noName \/ noScheme)
             /\ noName => cfg.err = ErrClusterName
             /\ (~noName /\ noScheme) => cfg.err = ErrScheme)
  /\ [](cfg.pc = "bound" =>
          /\ cfg.config.ServiceMaxConcurrentReconciles = 3
          /\ cfg.config.TargetgroupBindingMaxConcurrentReconciles = 3)
  /\ [][cfg'.pc = "validated" => cfg'.config = cfg.config]_vars

\* a named cluster with a scheme, a negative and a zero reconcile count:
\* Validate returned nil
C21_Witness ==
  /\ cfg.pc = "validated"
  /\ cfg.err = NoError
  /\ cfg.config.ClusterName = <<"k", "8">>
  /\ cfg.config.RuntimeConfig.Scheme # NoScheme
  /\ cfg.config.ServiceMaxConcurrentReconciles = -1
  /\ cfg.config.TargetgroupBindingMaxConcurrentReconciles = 0

(* ------------------------------------------------------------------ *)
(* ServiceTest.DeleteCertFromACM (pkg/test/e2e/service/service.go)     *)
(* ------------------------------------------------------------------ *)

\* line 356: for i := 0; i < 10; i++
MaxDeleteAttempts == 10

\* errors of ACM's DeleteCertificateWithContext
ErrResourceInUse == "ResourceInUseException"
AcmErrors == { ErrResourceInUse, ErrThrottled }

\* line 355: var err error, and i := 0; attempts holds the results of the
\* calls of DeleteCertificateWithContext, in order
DeleteEntry ==
  [pc |-> "loop", i |-> 0, err |-> NoError, attempts |-> <<>>, ret |-> NoError]

DeleteInit ==
  /\ acm = DeleteEntry
  /\ cfg = NoConfig
  /\ ReconcilerUnused

\* lines 357-362: the call succeeds; its result is assigned to the err that
\* `_, err :=` declares inside the loop body, the loop is left
DeleteOK ==
  /\ acm.pc = "loop"
  /\ acm.i < MaxDeleteAttempts
  /\ acm' = [acm EXCEPT !.pc = "after", !.attempts = Append(@, NoError)]
  /\ ReconcilerFrame
  /\ UNCHANGED cfg

\* lines 357-363: the call fails; its error is assigned to the err of the loop
\* body, the function sleeps and goes to the next round
DeleteFail ==
  /\ acm.pc = "loop"
  /\ acm.i < MaxDeleteAttempts
  /\ \E e \in AcmErrors :
       acm' = [acm EXCEPT !.i = @ + 1, !.attempts = Append(@, e)]
  /\ ReconcilerFrame
  /\ UNCHANGED cfg

\* line 356: the loop ends after the last round
DeleteGiveUp ==
  /\ acm.pc = "loop"
  /\ acm.i >= MaxDeleteAttempts
  /\ acm' = [acm EXCEPT !.pc = "after"]
  /\ ReconcilerFrame
  /\ UNCHANGED cfg

\* line 365: return err, the err declared at line 355
DeleteReturn ==
  /\ acm.pc = "after"
  /\ acm' = [acm EXCEPT !.pc = "returned", !.ret = acm.err]
  /\ ReconcilerFrame
  /\ UNCHANGED cfg

DeleteNext == DeleteOK \/ DeleteFail \/ DeleteGiveUp \/ DeleteReturn

DeleteSpec == DeleteInit /\ [][DeleteNext]_vars

(* ------------------------------------------------------------------ *)
(* C22                                                                 *)
(* ------------------------------------------------------------------ *)

\* C22, as the specification states it: at most 10 attempts are made, none
\* after one that succeeded; the function returns nil if an attempt succeeded
\* and the error of the last attempt if all 10 failed.  The code does not
\* keep to the last part: it returns nil after 10 failed attempts.
C22_DeleteRetries ==
  /\ Len(acm.attempts) <= 10
  /\ \A k \in 1..Len(acm.attempts) :
       acm.attempts[k] = NoError => k = Len(acm.attempts)
  /\ acm.pc = "returned" =>
       IF \E k \in 1..Len(acm.attempts) : acm.attempts[k] = NoError
       THEN acm.ret = NoError
       ELSE /\ Len(acm.attempts) = 10
            /\ acm.ret = acm.attempts[10]
            /\ acm.ret # NoError

====
